---- MODULE Spec2Model ----
(***************************************************************************)
(* The Details view of exa (src/output/details.rs): the collector          *)
(* Details::add_files_to_table, which gathers the rows of a listing with a *)
(* pool of worker threads and recurses into directories, and the Table,    *)
(* which holds the rows and renders them with Table::print_table.          *)
(*                                                                         *)
(* Indices: Rust vectors are 0-based, TLA+ sequences 1-based.  A row's     *)
(* depth keeps its Rust value (0 at the top); stack[depth] of the code is  *)
(* stack[depth + 1] here, and `index == num_eggs - 1` is                   *)
(* index = num_eggs here.                                                  *)
(***************************************************************************)
EXTENDS Integers, Sequences, FiniteSets, TLC

(* ------------------------------ bounds --------------------------------- *)

\* threads of the pool: num_cpus::get()
NumCpus == 2
\* the most extended attributes one file carries
MaxXattrs == 1
\* the largest depth limit (RecurseOptions.max_depth) tried
MaxLevel == 1
\* the most rows pushed through the Table's row operations in SpecTable
MaxRows == 3
\* the deepest row pushed through the Table's row operations in SpecTable
MaxDepth == 2
\* The rows of a table built to exercise the tree stack alone
MaxTreeRows == 4

(* -------------------------------- state -------------------------------- *)

VARIABLES
    details,       \* the Details value: [columns, recurse, sort_field, header, xattr]
    table,         \* the Table: [columns, rows]
    lines,         \* what print_table returned, None before it has run
    pc,            \* where Details::view is: "view", "collect", "print", "done";
                   \* "table" when the Table is driven directly
    frames,        \* the activations of add_files_to_table, the innermost last
    workers,       \* the closures handed to the pool that have not been joined
    table_lock,    \* the holder of the Mutex around the table, or None
    eggs_lock,     \* the holder of the Mutex around file_eggs, or None
    unreadable,    \* the files whose path.attributes() returned Err
    unopenable,    \* the directories whose to_dir(false) returned Err
    users,         \* the Table's users: [current_uid, users, groups]
    rendered       \* the Cell render_user or render_group returned last, or None

vars == <<details, table, lines, pc, frames, workers, table_lock, eggs_lock,
          unreadable, unopenable, users, rendered>>

(* --------------------------- the file system --------------------------- *)

\* Option: None, and Some(x)
None == <<>>
Some(x) == <<x>>
\* Option::unwrap
unwrap(opt) == opt[1]

\* The entries the listing can meet: docs/{x.txt, sub/{y.txt, .hid}}.
Files == {"docs", "x.txt", "sub", "y.txt", ".hid"}

\* File::is_directory
is_directory(f) == f \in {"docs", "sub"}

\* The entries Dir::files yields for a directory, in readdir order.
Children(f) ==
    CASE f = "docs" -> <<"x.txt", "sub">>
      [] f = "sub"  -> <<"y.txt", ".hid">>
      [] OTHER      -> <<>>

\* File::is_dotfile
is_dotfile(f) == f = ".hid"

\* File::file_name_width: the display width of the file's name
file_name_width(f) ==
    CASE f = "docs"  -> 4
      [] f = "x.txt" -> 5
      [] f = "sub"   -> 3
      [] f = "y.txt" -> 5
      [] f = ".hid"  -> 4

\* The position of the name in natural name order (SortField::Name).
NameRank(f) ==
    CASE f = ".hid"  -> 1
      [] f = "docs"  -> 2
      [] f = "sub"   -> 3
      [] f = "x.txt" -> 4
      [] f = "y.txt" -> 5

\* The length of the file in bytes (metadata.len(), what SortField::Size
\* compares); x.txt and y.txt have the same size.
FileLen(f) ==
    CASE f = "docs"  -> 4096
      [] f = "x.txt" -> 120
      [] f = "sub"   -> 4096
      [] f = "y.txt" -> 120
      [] f = ".hid"  -> 5

\* File::size: f::Size::None for a directory, f::Size::Some(bytes) otherwise
file_size(f) == IF is_directory(f) THEN None ELSE Some(FileLen(f))

\* File::permissions: the nine permission bits as render_permissions paints
\* them, the letter for a set bit and "-" for a clear one.
PermBits(f) ==
    IF is_directory(f) THEN <<"r", "w", "x", "r", "-", "x", "r", "-", "x">>
    ELSE <<"r", "w", "-", "r", "-", "-", "r", "-", "-">>

\* The text of extended attribute k: "<name> (len <size>)" (line 460).
XattrText(k) ==
    CASE k = 1 -> "greeting (len 5)"
      [] k = 2 -> "another_greeting (len 2)"
      [] OTHER -> "tag (len 3)"

\* Display width (UnicodeWidthStr::width) of the pieces of text the view
\* emits.  The tree parts are written in ASCII: each is three columns wide,
\* as the box-drawing originals are.
UnicodeWidth(s) ==
    CASE s \in Files -> file_name_width(s)
      [] s \in {"|--", "|  ", "+--", "   "} -> 3
      [] s \in {"enoch", "wheel"} -> 5
      [] s = "folk" -> 4
      [] s = "eve" -> 3
      [] s = "greeting (len 5)" -> 16
      [] s = "another_greeting (len 2)" -> 24
      [] s = "tag (len 3)" -> 11
      [] s = "Permissions" -> 11
      [] s = "Size" -> 4
      [] s = "Name" -> 4
      [] s = "EIO" -> 3
      [] s = ": " -> 2
      [] OTHER -> 1

(* -------------------------------- Cell --------------------------------- *)

\* A Cell is [text, length]: text is the sequence of painted pieces, length
\* the declared display width.

RECURSIVE DisplayWidth(_)
\* The display width of a text: the widths of its pieces added up.
DisplayWidth(text) ==
    IF text = <<>> THEN 0
    ELSE UnicodeWidth(Head(text)) + DisplayWidth(Tail(text))

\* Cell::empty
CellEmpty == [text |-> <<>>, length |-> 0]

\* Cell::paint(style, string): the string is given as its pieces
CellPaint(str) == [text |-> str, length |-> DisplayWidth(str)]

\* Cell::append
CellAppend(c, d) == [text |-> c.text \o d.text, length |-> c.length + d.length]

\* Cell::add_spaces
CellAddSpaces(c, n) ==
    [text |-> c.text \o [i \in 1..n |-> " "], length |-> c.length + n]

(* ------------------------------- Column ------------------------------- *)

\* The column kinds of the model: Column::Permissions and
\* Column::FileSize(SizeFormat::JustBytes).
Columns == {"Permissions", "FileSize"}

\* Column::alignment
alignment(c) == IF c = "FileSize" THEN "Right" ELSE "Left"

\* Column::header
header(c) == IF c = "FileSize" THEN "Size" ELSE "Permissions"

RECURSIVE format_int(_)
\* locale::Numeric::format_int: the decimal digits of n (no grouping below
\* 1000 in the English locale; larger numbers are never formatted here)
format_int(n) ==
    LET digit(d) == CASE d = 0 -> "0" [] d = 1 -> "1" [] d = 2 -> "2"
                      [] d = 3 -> "3" [] d = 4 -> "4" [] d = 5 -> "5"
                      [] d = 6 -> "6" [] d = 7 -> "7" [] d = 8 -> "8"
                      [] OTHER -> "9"
    IN  IF n < 10 THEN <<digit(n)>>
        ELSE Append(format_int(n \div 10), digit(n % 10))

\* Table::render_permissions
render_permissions(f, xattrs) ==
    LET file_type == IF is_directory(f) THEN "d" ELSE "."
        base      == <<file_type>> \o PermBits(f)
        columns   == IF xattrs THEN Append(base, "@") ELSE base
    IN  [text |-> columns, length |-> Len(columns)]

\* Table::render_size, for SizeFormat::JustBytes
render_size(f) ==
    IF file_size(f) # None THEN CellPaint(format_int(unwrap(file_size(f))))
    ELSE CellPaint(<<"-">>)

\* Table::display
display(f, column, xattrs) ==
    IF column = "Permissions" THEN render_permissions(f, xattrs)
    ELSE render_size(f)

\* A cells_for_file that leaves out the cell of the last column
cells_for_file_but_last(cols, f, xattrs) ==
    [n \in 1..(Len(cols) - 1) |-> display(f, cols[n], xattrs)]

\* Table::cells_for_file
cells_for_file(cols, f, xattrs) ==
    [n \in 1..Len(cols) |-> display(f, cols[n], xattrs)]

(* -------------------------------- Row ---------------------------------- *)

\* A Row is [depth, cells, name, last]: cells is None or the sequence of the
\* row's Cells, one per column.

\* A header row that takes the place of a final sibling
HeaderRow_last(cols) ==
    [depth |-> 0,
     cells |-> Some([n \in 1..Len(cols) |-> CellPaint(<<header(cols[n])>>)]),
     name  |-> CellPaint(<<"Name">>),
     last  |-> TRUE]

\* The Row of Table::add_header
HeaderRow(cols) ==
    [depth |-> 0,
     cells |-> Some([n \in 1..Len(cols) |-> CellPaint(<<header(cols[n])>>)]),
     name  |-> CellPaint(<<"Name">>),
     last  |-> FALSE]

\* The Row of Table::add_error: "<path: error>" with a path, "<error>" without
ErrorRow(error, depth, last, path) ==
    LET error_message == IF path # None
                         THEN <<"<", unwrap(path), ": ">> \o error \o <<">">>
                         ELSE <<"<">> \o error \o <<">">>
    IN  [depth |-> depth, cells |-> None,
         name |-> CellPaint(error_message), last |-> last]

\* The Row of Table::add_xattr
XattrRow(xattr, depth, last) ==
    [depth |-> depth, cells |-> None,
     name |-> CellPaint(<<XattrText(xattr)>>), last |-> last]

\* The name Cell of a file: filename(file, colours, links) with the file's
\* name width
FileNameCell(f) == [text |-> <<f>>, length |-> file_name_width(f)]

\* The Row of Table::add_file_with_cells, and of the file rows
\* add_files_to_table builds
FileRow(cells, name, depth, last) ==
    [depth |-> depth, cells |-> Some(cells), name |-> name, last |-> last]

\* Row::column_width (index from 1)
\* A column_width that lets a row without cells count its name
column_width_counting_names(row, index) ==
    IF row.cells # None THEN unwrap(row.cells)[index].length ELSE row.name.length

column_width(row, index) ==
    IF row.cells # None THEN unwrap(row.cells)[index].length ELSE 0

(* ----------------------------- print_table ------------------------------ *)

\* A max that gives the first element
iter_max_first(seq) == IF seq = <<>> THEN None ELSE Some(Head(seq))

RECURSIVE iter_max(_)
\* Iterator::max: None for an empty sequence, the largest element otherwise
iter_max(seq) ==
    IF seq = <<>> THEN None
    ELSE LET rest == iter_max(Tail(seq))
         IN  IF rest = None \/ unwrap(rest) < Head(seq) THEN Some(Head(seq)) ELSE rest

\* Option::unwrap_or
unwrap_or(opt, default) == IF opt = None THEN default ELSE unwrap(opt)

RECURSIVE iter_sum(_)
\* Iterator::sum
iter_sum(seq) == IF seq = <<>> THEN 0 ELSE Head(seq) + iter_sum(Tail(seq))

\* column_widths of print_table: the longest cell of each column
column_widths(cols, rs) ==
    [n \in 1..Len(cols) |->
        unwrap_or(iter_max([i \in 1..Len(rs) |-> column_width(rs[i], n)]), 0)]

\* A total_width that reserves no separator for the columns
total_width_no_separators(cols, rs) == iter_sum(column_widths(cols, rs))

\* total_width of print_table
total_width(cols, rs) == Len(cols) + iter_sum(column_widths(cols, rs))

\* TreePart::ascii_art, in ASCII
ascii_art(part) ==
    CASE part = "Edge"   -> "|--"
      [] part = "Line"   -> "|  "
      [] part = "Corner" -> "+--"
      [] part = "Blank"  -> "   "

\* A resize that clears the vector before it extends it
vec_resize_cleared(v, new_len, value) ==
    [i \in 1..new_len |-> value]

\* Vec::resize(new_len, value): truncate, or extend with value
vec_resize(v, new_len, value) ==
    IF new_len <= Len(v) THEN SubSeq(v, 1, new_len)
    ELSE v \o [i \in 1..(new_len - Len(v)) |-> value]

RECURSIVE pad_cells(_, _, _, _, _)
\* The loop over the columns of a row with cells: each cell padded to the
\* column's width on the side its alignment gives, then one space.
pad_cells(cell, cols, widths, cells, n) ==
    IF n > Len(widths) THEN cell
    ELSE LET width  == widths[n]
             padded == IF alignment(cols[n]) = "Left"
                       THEN CellAddSpaces(CellAppend(cell, cells[n]),
                                          width - cells[n].length)
                       ELSE CellAppend(CellAddSpaces(cell, width - cells[n].length),
                                       cells[n])
         IN  pad_cells(CellAddSpaces(padded, 1), cols, widths, cells, n + 1)

\* A stack_set that demotes the entry before the row is drawn
stack_set_demoted(stack, row) ==
    [vec_resize(stack, row.depth + 1, "Edge")
        EXCEPT ![row.depth + 1] = IF row.last THEN "Blank" ELSE "Line"]

\* stack.resize(row.depth + 1, Edge); stack[row.depth] = Corner or Edge
stack_set(stack, row) ==
    [vec_resize(stack, row.depth + 1, "Edge")
        EXCEPT ![row.depth + 1] = IF row.last THEN "Corner" ELSE "Edge"]

\* A stack_demote that leaves a pass-through line under every row
stack_demote_always_line(stack, row) ==
    [stack EXCEPT ![row.depth + 1] = "Line"]

\* stack[row.depth] = Blank or Line, after the row has been drawn
stack_demote(stack, row) ==
    [stack EXCEPT ![row.depth + 1] = IF row.last THEN "Blank" ELSE "Line"]

\* One pass of the loop over the rows: the finished line and the stack after it
print_row(cols, widths, total, stack, row) ==
    LET cell0    == IF row.cells # None
                    THEN pad_cells(CellEmpty, cols, widths, unwrap(row.cells), 1)
                    ELSE CellAddSpaces(CellEmpty, total)
        drawn    == stack_set(stack, row)
        tree     == [text   |-> [i \in 1..row.depth |-> ascii_art(drawn[i + 1])],
                     length |-> 4 * row.depth]
        spaced   == IF row.depth # 0 THEN CellAddSpaces(tree, 1) ELSE tree
        filename == CellAppend(spaced, row.name)
    IN  [cell |-> CellAppend(cell0, filename), stack |-> stack_demote(drawn, row)]

RECURSIVE print_rows(_, _, _, _, _, _, _)
\* The loop over the rows, from row i on: the lines and the last stack
print_rows(cols, rs, widths, total, i, stack, cells) ==
    IF i > Len(rs) THEN [cells |-> cells, stack |-> stack]
    ELSE LET r == print_row(cols, widths, total, stack, rs[i])
         IN  print_rows(cols, rs, widths, total, i + 1, r.stack, Append(cells, r.cell))

\* A print_table whose stack outlives the call: from the second call on it
\* starts with the stack the call before left
print_table_stale_stack(cols, rs) ==
    LET fresh == print_rows(cols, rs, column_widths(cols, rs), total_width(cols, rs),
                            1, <<>>, <<>>)
    IN  IF lines = None THEN fresh.cells
        ELSE print_rows(cols, rs, column_widths(cols, rs), total_width(cols, rs),
                        1, fresh.stack, <<>>).cells

\* Table::print_table: the lines of the table
print_table(cols, rs) ==
    print_rows(cols, rs, column_widths(cols, rs), total_width(cols, rs),
               1, <<>>, <<>>).cells

(* ------------------------ options and comparator ----------------------- *)

\* The values of Details.recurse: None, or RecurseOptions [tree, max_depth]
RecurseValues ==
    {None, Some([tree |-> FALSE, max_depth |-> None]),
     Some([tree |-> TRUE, max_depth |-> None])}
    \cup {Some([tree |-> TRUE, max_depth |-> Some(d)]) : d \in 1..MaxLevel}

\* RecurseOptions::is_too_deep
is_too_deep(r, depth) == r.max_depth # None /\ unwrap(r.max_depth) <= depth

\* The sort fields of FileFilter tried: by name and by size
SortFields == {"Name", "Size"}

\* FileFilter::compare_files: "Less", "Equal" or "Greater"
compare_files(sort_field, a, b) ==
    LET ka == IF sort_field = "Name" THEN NameRank(a) ELSE FileLen(a)
        kb == IF sort_field = "Name" THEN NameRank(b) ELSE FileLen(b)
    IN  IF ka < kb THEN "Less" ELSE IF ka > kb THEN "Greater" ELSE "Equal"

\* FileFilter::filter_files: dotfiles are dropped
filter_files(files) == SelectSeq(files, LAMBDA f : ~is_dotfile(f))

RECURSIVE insert_sorted(_, _, _)
\* egg put into the sorted sequence after every element that is not greater
insert_sorted(sort_field, sorted, egg) ==
    IF sorted = <<>> THEN <<egg>>
    ELSE IF compare_files(sort_field, egg.file, Head(sorted).file) = "Less"
         THEN <<egg>> \o sorted
         ELSE <<Head(sorted)>> \o insert_sorted(sort_field, Tail(sorted), egg)

RECURSIVE sort_by(_, _)
\* Vec::sort_by with compare_files on the eggs' files: a stable sort
sort_by(sort_field, eggs) ==
    IF eggs = <<>> THEN <<>>
    ELSE insert_sorted(sort_field,
                       sort_by(sort_field, SubSeq(eggs, 1, Len(eggs) - 1)),
                       eggs[Len(eggs)])

(* -------------------------------- users -------------------------------- *)

\* uid_t and gid_t are u32.  A value is kept as its two 16-bit halves,
\* hi * 65536 + lo, so that 2^31 and above can be written.
U32(hi, lo) == [hi |-> hi, lo |-> lo]

\* The decimal digit d
Digit(d) ==
    CASE d = 0 -> "0" [] d = 1 -> "1" [] d = 2 -> "2" [] d = 3 -> "3"
      [] d = 4 -> "4" [] d = 5 -> "5" [] d = 6 -> "6" [] d = 7 -> "7"
      [] d = 8 -> "8" [] d = 9 -> "9"

RECURSIVE u32_to_string(_)
\* u32::to_string: the decimal digits of the unsigned value, by long
\* division of the two halves by 10
u32_to_string(n) ==
    LET mid  == (n.hi % 10) * 65536 + n.lo
        quot == U32(n.hi \div 10, mid \div 10)
    IN  IF quot = U32(0, 0) THEN <<Digit(mid % 10)>>
        ELSE Append(u32_to_string(quot), Digit(mid % 10))

\* The ids that are rendered: 2, 100, 666, 1000 and 2^31 = 2147483648
UserIds == {U32(0, 2), U32(0, 1000), U32(32768, 0)}
GroupIds == {U32(0, 100), U32(0, 666), U32(32768, 0)}

\* The users and groups a Users value can know: User [uid, name,
\* primary_group] and Group [gid, name, members]
PossibleUsers ==
    {[uid |-> U32(0, 1000), name |-> "enoch", primary_group |-> g] : g \in GroupIds}
    \cup {[uid |-> U32(0, 2), name |-> "eve", primary_group |-> g] : g \in GroupIds}
PossibleGroups ==
    {[gid |-> U32(0, 100), name |-> "folk", members |-> m] : m \in {{}, {"eve"}}}
    \cup {[gid |-> U32(0, 666), name |-> "wheel", members |-> {}]}

\* The Users values: MockUsers::with_current_uid, add_user, add_group, with
\* at most one user for a uid and one group for a gid
UsersValues ==
    {[current_uid |-> c, users |-> us, groups |-> gs] :
        c \in UserIds,
        us \in {x \in SUBSET PossibleUsers :
                   \A u, v \in x : u.uid = v.uid => u = v},
        gs \in {x \in SUBSET PossibleGroups :
                   \A g, h \in x : g.gid = h.gid => g = h}}

\* OSUsers::empty_cache, for a listing that has no user or group column
NoUsers == [current_uid |-> U32(0, 1000), users |-> {}, groups |-> {}]

\* Users::get_user_by_uid, Users::get_group_by_gid, Users::get_current_uid
get_user_by_uid(db, uid) ==
    IF \E u \in db.users : u.uid = uid
    THEN Some(CHOOSE u \in db.users : u.uid = uid) ELSE None
get_group_by_gid(db, gid) ==
    IF \E g \in db.groups : g.gid = gid
    THEN Some(CHOOSE g \in db.groups : g.gid = gid) ELSE None
get_current_uid(db) == db.current_uid

\* Cell::paint(style, text), with the style kept
CellPaintStyle(style, text) ==
    [style |-> style, text |-> text, length |-> DisplayWidth(text)]

\* A render_user that gives the "you" style only to a uid with a name
render_user_you_if_named(db, user) ==
    LET found == get_user_by_uid(db, user)
        user_name == IF found # None THEN <<unwrap(found).name>>
                     ELSE u32_to_string(user)
        style == IF found # None /\ get_current_uid(db) = user THEN "user_you"
                 ELSE "user_someone_else"
    IN  CellPaintStyle(style, user_name)

\* Table::render_user
render_user(db, user) ==
    LET found == get_user_by_uid(db, user)
        user_name == IF found # None THEN <<unwrap(found).name>>
                     ELSE u32_to_string(user)
        style == IF get_current_uid(db) = user THEN "user_you"
                 ELSE "user_someone_else"
    IN  CellPaintStyle(style, user_name)

\* A render_group that looks at the primary group only
render_group_primary_only(db, group) ==
    LET found == get_group_by_gid(db, group)
        current_user == get_user_by_uid(db, get_current_uid(db))
        yours == /\ found # None
                 /\ current_user # None
                 /\ unwrap(current_user).primary_group = unwrap(found).gid
        group_name == IF found # None THEN <<unwrap(found).name>>
                      ELSE u32_to_string(group)
    IN  CellPaintStyle(IF yours THEN "group_yours" ELSE "group_not_yours", group_name)

\* Table::render_group
render_group(db, group) ==
    LET found == get_group_by_gid(db, group)
        current_user == get_user_by_uid(db, get_current_uid(db))
        yours == /\ found # None
                 /\ current_user # None
                 /\ \/ unwrap(current_user).primary_group = unwrap(found).gid
                    \/ unwrap(current_user).name \in unwrap(found).members
        group_name == IF found # None THEN <<unwrap(found).name>>
                      ELSE u32_to_string(group)
    IN  CellPaintStyle(IF yours THEN "group_yours" ELSE "group_not_yours", group_name)

(* ------------------------------- results ------------------------------- *)

\* An io::Error, as the pieces of its message
IoError == <<"EIO">>

\* Result: Err(e), and Ok(x)
Err(e) == [ok |-> FALSE, val |-> e]
Ok(x) == [ok |-> TRUE, val |-> x]

\* What file.path.attributes() can return: an error, or the attributes
AttributeResults == {Err(IoError)} \cup {Ok([k \in 1..n |-> k]) : n \in 0..MaxXattrs}

\* The column lists a listing is made with: none (a plain tree), or the
\* permissions and the size
ColumnLists == {<<>>, <<"Permissions", "FileSize">>}

\* The batches Details::view is called with
TopLevel == {<<>>, <<"docs">>, <<"y.txt", "x.txt">>}

\* A fresh activation of add_files_to_table(table, src, depth)
Frame(src, depth) ==
    [src |-> src, depth |-> depth, pc |-> "scoped", file_eggs |-> <<>>, index |-> 1]

\* The identity of a worker closure: its batch (the level of its activation)
\* and the position of its file in src
WorkerId(w) == <<w.batch, w.idx>>

\* Details and Table::with_options: an empty table
Init ==
    /\ details \in [columns : ColumnLists, recurse : RecurseValues,
                     sort_field : SortFields, header : BOOLEAN, xattr : BOOLEAN]
    /\ table = [columns |-> details.columns, rows |-> <<>>]
    /\ lines = None
    /\ pc = "view"
    /\ frames = <<>>
    /\ workers = {}
    /\ table_lock = None
    /\ eggs_lock = None
    /\ unreadable = {}
    /\ unopenable = {}
    /\ users = NoUsers
    /\ rendered = None

(* ----------------------- Details::view, the driver ---------------------- *)

\* The innermost activation and its level
Top == frames[Len(frames)]
Level == Len(frames)

\* The activation at the top, changed
SetTop(f) == [frames EXCEPT ![Len(frames)] = f]

\* Details::view up to the call of add_files_to_table: the header row if
\* asked for, then the top-level batch at depth 0
view(files) ==
    /\ pc = "view"
    /\ table' = [table EXCEPT !.rows =
                    IF details.header THEN Append(@, HeaderRow(table.columns)) ELSE @]
    /\ frames' = <<Frame(files, 0)>>
    /\ pc' = "collect"
    /\ UNCHANGED <<details, lines, workers, table_lock, eggs_lock, unreadable, unopenable, users, rendered>>

\* pool.scoped: one closure per file of src is handed to the pool
scoped_execute ==
    /\ frames # <<>>
    /\ Top.pc = "scoped"
    /\ workers' = workers \cup
          {[batch |-> Level, idx |-> i, file |-> Top.src[i], pc |-> "queued",
            xattrs |-> <<>>, errors |-> <<>>, cells |-> <<>>, dir |-> None]
             : i \in 1..Len(Top.src)}
    /\ frames' = SetTop([Top EXCEPT !.pc = "join"])
    /\ UNCHANGED <<details, table, lines, pc, table_lock, eggs_lock, unreadable, unopenable, users, rendered>>

(* --------------------------- a worker closure --------------------------- *)

\* A worker with its record changed
SetWorker(w, v) == (workers \ {w}) \cup {v}

\* A closure is running once a thread has taken it and until it has ended
Running(w) == w.pc \notin {"queued", "done"}

\* The pool's threads take the closures in the order they were handed in,
\* and there are NumCpus threads
CanStart(w) ==
    /\ w.pc = "queued"
    /\ Cardinality({v \in workers : v.batch = w.batch /\ Running(v)}) < NumCpus
    /\ \A v \in workers : v.batch = w.batch /\ v.pc = "queued" => w.idx <= v.idx

\* A closure that keeps the attributes read whether they are shown or not
closure_xattrs_always(res, xattr) == IF res.ok THEN res.val ELSE <<>>

\* The xattrs a closure keeps of file.path.attributes(): those read, when
\* attributes are shown
closure_xattrs(res, xattr) == IF res.ok /\ xattr THEN res.val ELSE <<>>

\* A closure that keeps the error whether attributes are shown or not
closure_errors_always(res, xattr) ==
    IF ~res.ok THEN <<[error |-> res.val, path |-> None]>> ELSE <<>>

\* The errors a closure keeps of file.path.attributes(): the error with no
\* path, when attributes are shown
closure_errors(res, xattr) ==
    IF ~res.ok /\ xattr THEN <<[error |-> res.val, path |-> None]>> ELSE <<>>

\* file.path.attributes(), and what is kept of it
read_attributes(w, res) ==
    /\ CanStart(w)
    /\ workers' = SetWorker(w,
          [w EXCEPT !.pc = "lock_table",
                    !.xattrs = closure_xattrs(res, details.xattr),
                    !.errors = closure_errors(res, details.xattr)])
    /\ unreadable' = IF res.ok THEN unreadable ELSE unreadable \cup {w.file}
    /\ UNCHANGED <<details, table, lines, pc, frames, table_lock, eggs_lock, unopenable, users, rendered>>

\* A lock that is handed out whoever holds it
Unlocked_always(holder) == TRUE

\* Mutex::lock succeeds when nobody holds the mutex
Unlocked(holder) == holder = None

\* table.lock()
lock_table(w) ==
    /\ w.pc = "lock_table"
    /\ Unlocked(table_lock)
    /\ table_lock' = Some(WorkerId(w))
    /\ workers' = SetWorker(w, [w EXCEPT !.pc = "cells"])
    /\ UNCHANGED <<details, table, lines, pc, frames, eggs_lock, unreadable, unopenable, users, rendered>>

\* A closure that keeps the guard of the table until it ends
worker_cells_keeps_guard(w) ==
    /\ w.pc = "cells"
    /\ workers' = SetWorker(w,
          [w EXCEPT !.pc = "to_dir",
                    !.cells = cells_for_file(table.columns, w.file, w.xattrs # <<>>)])
    /\ UNCHANGED <<details, table, lines, pc, frames, table_lock, eggs_lock, unreadable, unopenable, users, rendered>>

\* cells_for_file under the lock; the guard is dropped at the end of the
\* statement
worker_cells(w) ==
    /\ w.pc = "cells"
    /\ workers' = SetWorker(w,
          [w EXCEPT !.pc = "to_dir",
                    !.cells = cells_for_file(table.columns, w.file, w.xattrs # <<>>)])
    /\ table_lock' = None
    /\ UNCHANGED <<details, table, lines, pc, frames, eggs_lock, unreadable, unopenable, users, rendered>>

\* A closure that recurses from the top level only
recurses_top_only(r, f, depth) ==
    r # None /\ is_directory(f) /\ unwrap(r).tree /\ depth = 0

\* A recursion test that ignores the depth limit
recurses_any_depth(r, f, depth) ==
    r # None /\ is_directory(f) /\ unwrap(r).tree

\* Whether the closure tries to open the file as a directory
recurses(r, f, depth) ==
    r # None /\ is_directory(f) /\ unwrap(r).tree /\ ~is_too_deep(unwrap(r), depth)

\* A closure that keeps the directory whether or not it opened
closure_dir_unopened(f, tried, opened) == IF tried THEN Some(f) ELSE None

\* dir of the closure: Some only for a directory to recurse into that opened
closure_dir(f, tried, opened) == IF tried /\ opened THEN Some(f) ELSE None

\* The name cell, then file.to_dir(false) for a directory to recurse into
worker_to_dir(w, opened) ==
    LET tried == recurses(details.recurse, w.file, frames[w.batch].depth)
    IN  /\ w.pc = "to_dir"
        /\ tried \/ opened
        /\ workers' = SetWorker(w,
              [w EXCEPT !.pc = "lock_eggs", !.dir = closure_dir(w.file, tried, opened)])
        /\ unopenable' = IF tried /\ ~opened THEN unopenable \cup {w.file}
                         ELSE unopenable
        /\ UNCHANGED <<details, table, lines, pc, frames, table_lock, eggs_lock,
                       unreadable, users, rendered>>

\* file_eggs.lock()
lock_eggs(w) ==
    /\ w.pc = "lock_eggs"
    /\ Unlocked(eggs_lock)
    /\ eggs_lock' = Some(WorkerId(w))
    /\ workers' = SetWorker(w, [w EXCEPT !.pc = "push"])
    /\ UNCHANGED <<details, table, lines, pc, frames, table_lock, unreadable, unopenable, users, rendered>>

\* The Egg a closure has made
Egg(w) ==
    [cells |-> w.cells, name |-> FileNameCell(w.file), xattrs |-> w.xattrs,
     errors |-> w.errors, dir |-> w.dir, file |-> w.file]

\* push(egg) under the lock; the guard is dropped and the closure ends
push_egg(w) ==
    /\ w.pc = "push"
    /\ frames' = [frames EXCEPT ![w.batch].file_eggs = Append(@, Egg(w))]
    /\ eggs_lock' = None
    /\ workers' = SetWorker(w, [w EXCEPT !.pc = "done"])
    /\ UNCHANGED <<details, table, lines, pc, table_lock, unreadable, unopenable, users, rendered>>

(* ------------------- add_files_to_table after the pool ----------------- *)

\* A pool.scoped that returns without waiting for the closures
all_joined_no_wait(batch) == TRUE

\* The end of pool.scoped waits for every closure of the batch
all_joined(batch) == \A w \in workers : w.batch = batch => w.pc = "done"

\* pool.scoped returns: the closures of the batch have ended
join ==
    /\ frames # <<>>
    /\ Top.pc = "join"
    /\ all_joined(Level)
    /\ workers' = {w \in workers : ~(w.batch = Level /\ w.pc = "done")}
    /\ frames' = SetTop([Top EXCEPT !.pc = "sort"])
    /\ UNCHANGED <<details, table, lines, pc, table_lock, eggs_lock, unreadable, unopenable, users, rendered>>

\* file_eggs.sort_by(compare_files)
sort_eggs ==
    /\ frames # <<>>
    /\ Top.pc = "sort"
    /\ frames' = SetTop([Top EXCEPT !.pc = "rows",
                                    !.file_eggs = sort_by(details.sort_field, @)])
    /\ UNCHANGED <<details, table, lines, pc, workers, table_lock, eggs_lock, unreadable, unopenable, users, rendered>>

\* A last that marks the first egg of the batch
is_last_first(index, num_eggs) == index = 1

\* last of the file row: index == num_eggs - 1
is_last(index, num_eggs) == index = num_eggs

\* A listing that keeps the errors without their paths
listing_errors_pathless(children, bad) ==
    [i \in 1..Len(SelectSeq(children, LAMBDA c : c \in bad)) |->
        [error |-> IoError, path |-> None]]

\* The listing errors of dir.files(): one (error, Some(path)) per child
\* that could not be listed, in the order of the listing
listing_errors(children, bad) ==
    [i \in 1..Len(SelectSeq(children, LAMBDA c : c \in bad)) |->
        [error |-> IoError, path |-> Some(SelectSeq(children, LAMBDA c : c \in bad)[i])]]

\* Rows before the children that mark their final row last, as a leaf's do
rows_before_children_final_last(xattrs, errors, depth) ==
    [i \in 1..Len(xattrs) |->
        XattrRow(xattrs[i], depth + 1, errors = <<>> /\ i = Len(xattrs))]
    \o [i \in 1..Len(errors) |->
          ErrorRow(errors[i].error, depth + 1, i = Len(errors), errors[i].path)]

\* The rows of an entry that is recursed into: xattrs, then errors, none last
rows_before_children(xattrs, errors, depth) ==
    [i \in 1..Len(xattrs) |-> XattrRow(xattrs[i], depth + 1, FALSE)]
    \o [i \in 1..Len(errors) |->
          ErrorRow(errors[i].error, depth + 1, FALSE, errors[i].path)]

\* Leaf rows whose final attribute row is last whatever errors follow
rows_of_leaf_xattr_last(xattrs, errors, depth) ==
    [i \in 1..Len(xattrs) |-> XattrRow(xattrs[i], depth + 1, i = Len(xattrs))]
    \o [i \in 1..Len(errors) |->
          ErrorRow(errors[i].error, depth + 1, i = Len(errors), errors[i].path)]

\* Leaf rows put at the depth of the entry itself
rows_of_leaf_at_entry_depth(xattrs, errors, depth) ==
    [i \in 1..Len(xattrs) |->
        XattrRow(xattrs[i], depth, errors = <<>> /\ i = Len(xattrs))]
    \o [i \in 1..Len(errors) |->
          ErrorRow(errors[i].error, depth, i = Len(errors), errors[i].path)]

\* The rows of an entry that is not recursed into: xattrs, then errors, the
\* final one last
rows_of_leaf(xattrs, errors, depth) ==
    [i \in 1..Len(xattrs) |->
        XattrRow(xattrs[i], depth + 1, errors = <<>> /\ i = Len(xattrs))]
    \o [i \in 1..Len(errors) |->
          ErrorRow(errors[i].error, depth + 1, i = Len(errors), errors[i].path)]

\* One pass of the loop over the sorted eggs: the file row, then either the
\* entry's rows and the call for its children, or the entry's rows alone.
\* bad is the set of children dir.files() fails to list.
add_egg_rows(bad) ==
    /\ frames # <<>>
    /\ Top.pc = "rows"
    /\ Top.index <= Len(Top.file_eggs)
    /\ LET egg      == Top.file_eggs[Top.index]
           depth    == Top.depth
           row      == FileRow(egg.cells, egg.name, depth,
                               is_last(Top.index, Len(Top.file_eggs)))
           children == IF egg.dir # None THEN Children(unwrap(egg.dir)) ELSE <<>>
           files    == filter_files(SelectSeq(children, LAMBDA c : c \notin bad))
           errors   == egg.errors \o listing_errors(children, bad)
           next     == [Top EXCEPT !.index = @ + 1]
       IN  /\ bad \subseteq {children[i] : i \in 1..Len(children)}
           /\ IF egg.dir # None /\ files # <<>>
              THEN /\ table' = [table EXCEPT !.rows = Append(@, row)
                                   \o rows_before_children(egg.xattrs, errors, depth)]
                   /\ frames' = Append(SetTop(next), Frame(files, depth + 1))
              ELSE /\ table' = [table EXCEPT !.rows = Append(@, row)
                                   \o rows_of_leaf(egg.xattrs, errors, depth)]
                   /\ frames' = SetTop(next)
    /\ UNCHANGED <<details, lines, pc, workers, table_lock, eggs_lock, unreadable, unopenable, users, rendered>>

\* add_files_to_table returns once the loop has passed every egg
return ==
    /\ frames # <<>>
    /\ Top.pc = "rows"
    /\ Top.index > Len(Top.file_eggs)
    /\ frames' = SubSeq(frames, 1, Len(frames) - 1)
    /\ pc' = IF Len(frames) = 1 THEN "print" ELSE pc
    /\ UNCHANGED <<details, table, lines, workers, table_lock, eggs_lock, unreadable, unopenable, users, rendered>>

\* Table::print_table, as Details::view calls it on the finished table and
\* as it is called on a table built directly
table_print ==
    /\ pc \in {"print", "table", "tree"}
    /\ lines' = Some(print_table(table.columns, table.rows))
    /\ pc' = "done"
    /\ UNCHANGED <<details, table, frames, workers, table_lock, eggs_lock, unreadable, unopenable, users, rendered>>

Next ==
    \/ \E files \in TopLevel : view(files)
    \/ scoped_execute
    \/ \E w \in workers, res \in AttributeResults : read_attributes(w, res)
    \/ \E w \in workers : lock_table(w)
    \/ \E w \in workers : worker_cells(w)
    \/ \E w \in workers, opened \in BOOLEAN : worker_to_dir(w, opened)
    \/ \E w \in workers : lock_eggs(w)
    \/ \E w \in workers : push_egg(w)
    \/ join
    \/ sort_eggs
    \/ \E bad \in SUBSET Files : add_egg_rows(bad)
    \/ return
    \/ table_print

Spec == Init /\ [][Next]_vars

\* A step of a closure on a thread of the pool
WorkerStep ==
    \/ \E w \in workers, res \in AttributeResults : read_attributes(w, res)
    \/ \E w \in workers : lock_table(w)
    \/ \E w \in workers : worker_cells(w)
    \/ \E w \in workers, opened \in BOOLEAN : worker_to_dir(w, opened)
    \/ \E w \in workers : lock_eggs(w)
    \/ \E w \in workers : push_egg(w)

\* The view where the threads of the pool keep running their closures (the
\* calls for the attributes and for the directory return) and pool.scoped
\* returns once the closures have ended
SpecFair == Spec /\ WF_vars(WorkerStep) /\ WF_vars(join)

(* --------------------- the Table driven row by row ---------------------- *)

\* The files add_file_with_cells is called for, each with whether it has
\* extended attributes
SampleFiles == {<<"x.txt", FALSE>>, <<"sub", TRUE>>}

\* Table::with_options with the permissions and size columns
InitTable ==
    /\ details = [columns |-> <<"Permissions", "FileSize">>, recurse |-> None,
                  sort_field |-> "Name", header |-> FALSE, xattr |-> FALSE]
    /\ table = [columns |-> details.columns, rows |-> <<>>]
    /\ lines = None
    /\ pc = "table"
    /\ frames = <<>>
    /\ workers = {}
    /\ table_lock = None
    /\ eggs_lock = None
    /\ unreadable = {}
    /\ unopenable = {}
    /\ users = NoUsers
    /\ rendered = None

\* self.rows.push(row), on a table that is being built directly
push_row(row) ==
    /\ pc = "table"
    /\ Len(table.rows) < MaxRows
    /\ table' = [table EXCEPT !.rows = Append(@, row)]
    /\ UNCHANGED <<details, lines, pc, frames, workers, table_lock, eggs_lock, unreadable, unopenable, users, rendered>>

\* Table::add_header
add_header == push_row(HeaderRow(table.columns))

\* Table::add_file_with_cells
add_file_with_cells(cells, f, depth, last) ==
    push_row(FileRow(cells, FileNameCell(f), depth, last))

\* Table::add_xattr
add_xattr(xattr, depth, last) == push_row(XattrRow(xattr, depth, last))

\* Table::print_table called once more on the table it has printed
print_table_again ==
    /\ pc \in {"done", "again"}
    /\ lines' = Some(print_table(table.columns, table.rows))
    /\ pc' = "again"
    /\ UNCHANGED <<details, table, frames, workers, table_lock, eggs_lock, unreadable, unopenable, users, rendered>>

NextTable ==
    \/ add_header
    \/ \E s \in SampleFiles, depth \in 0..MaxDepth, last \in BOOLEAN :
          add_file_with_cells(cells_for_file(table.columns, s[1], s[2]), s[1],
                              depth, last)
    \/ \E depth \in 0..MaxDepth, last \in BOOLEAN : add_xattr(1, depth, last)
    \/ table_print
    \/ print_table_again

SpecTable == InitTable /\ [][NextTable]_vars

(* ------------------ a Table of file rows without columns --------------- *)

\* Table::with_options without columns
InitTree ==
    /\ details = [columns |-> <<>>, recurse |-> None,
                  sort_field |-> "Name", header |-> FALSE, xattr |-> FALSE]
    /\ table = [columns |-> details.columns, rows |-> <<>>]
    /\ lines = None
    /\ pc = "tree"
    /\ frames = <<>>
    /\ workers = {}
    /\ table_lock = None
    /\ eggs_lock = None
    /\ unreadable = {}
    /\ unopenable = {}
    /\ users = NoUsers
    /\ rendered = None

\* Table::add_file_with_cells for x.txt, at any depth and with either flag
add_tree_row(depth, last) ==
    /\ pc = "tree"
    /\ Len(table.rows) < MaxTreeRows
    /\ table' = [table EXCEPT !.rows =
                    Append(@, FileRow(cells_for_file(table.columns, "x.txt", FALSE),
                                      FileNameCell("x.txt"), depth, last))]
    /\ UNCHANGED <<details, lines, pc, frames, workers, table_lock, eggs_lock, unreadable, unopenable, users, rendered>>

NextTree ==
    \/ \E depth \in 0..MaxDepth, last \in BOOLEAN : add_tree_row(depth, last)
    \/ table_print

SpecTree == InitTree /\ [][NextTree]_vars

(* ------------------- the user and group cells of a Table --------------- *)

\* A default Table whose users are then set, as the tests build it
InitUsers ==
    /\ details = [columns |-> <<>>, recurse |-> None,
                  sort_field |-> "Name", header |-> FALSE, xattr |-> FALSE]
    /\ table = [columns |-> details.columns, rows |-> <<>>]
    /\ lines = None
    /\ pc = "users"
    /\ frames = <<>>
    /\ workers = {}
    /\ table_lock = None
    /\ eggs_lock = None
    /\ unreadable = {}
    /\ unopenable = {}
    /\ users \in UsersValues
    /\ rendered = None

\* table.render_user(f::User(user))
call_render_user(user) ==
    /\ pc = "users"
    /\ rendered' = Some([of |-> "user", id |-> user, cell |-> render_user(users, user)])
    /\ UNCHANGED <<details, table, lines, pc, frames, workers, table_lock, eggs_lock, unreadable, unopenable, users>>

\* table.render_group(f::Group(group))
call_render_group(group) ==
    /\ pc = "users"
    /\ rendered' = Some([of |-> "group", id |-> group, cell |-> render_group(users, group)])
    /\ UNCHANGED <<details, table, lines, pc, frames, workers, table_lock, eggs_lock, unreadable, unopenable, users>>

NextUsers ==
    \/ \E user \in UserIds : call_render_user(user)
    \/ \E group \in GroupIds : call_render_group(group)

SpecUsers == InitUsers /\ [][NextUsers]_vars

(* ------------------------- reading the table --------------------------- *)

\* The header row, the file rows, the attribute rows and the error rows
IsHeaderRow(r) == r.cells # None /\ r.name.text = <<"Name">>
IsFileRow(r) == r.cells # None /\ r.name.text # <<"Name">>
IsErrorRow(r) == r.cells = None /\ Head(r.name.text) = "<"
IsPathlessErrorRow(r) == r.cells = None /\ r.name.text = <<"<">> \o IoError \o <<">">>
IsXattrRow(r) == r.cells = None /\ Head(r.name.text) # "<"

\* Row j comes after row i with only deeper rows between them and is deeper
\* itself: it is drawn under row i
Under(rs, i, j) == i < j /\ \A k \in (i + 1)..j : rs[k].depth > rs[i].depth

\* The file rows of the batch at depth d that is being appended: the file
\* rows at depth d after the last row above that depth
BatchFileRows(rs, d) ==
    LET above == {k \in 1..Len(rs) : rs[k].depth < d}
        start == IF above = {} THEN 0
                 ELSE CHOOSE k \in above : \A m \in above : m <= k
    IN  SelectSeq(SubSeq(rs, start + 1, Len(rs)),
                  LAMBDA r : IsFileRow(r) /\ r.depth = d)

\* The files of a sequence of file rows, and of a sequence of eggs
RowFiles(rs) == [k \in 1..Len(rs) |-> rs[k].name.text[1]]
EggFiles(eggs) == [k \in 1..Len(eggs) |-> eggs[k].file]

\* The order the comparator gives the entries of src: src, stably sorted
ComparatorOrder(sort_field, src) ==
    EggFiles(sort_by(sort_field, [k \in 1..Len(src) |-> [file |-> src[k]]]))

\* The innermost activation has passed every egg of its batch
BatchAppended ==
    frames # <<>> /\ Top.pc = "rows" /\ Top.index > Len(Top.file_eggs)

(* -------------------------------- claims -------------------------------- *)

\* C1: whatever the order in which the workers finish, the file rows a
\* batch appends are in the order the comparator gives the original entries
\* of the batch.
C1_OrderFromComparator ==
    BatchAppended =>
        RowFiles(BatchFileRows(table.rows, Top.depth))
            = ComparatorOrder(details.sort_field, Top.src)

\* The longest cell of column n among the rows that have cells, 0 when no
\* row has cells
LongestCell(rs, n) ==
    LET lengths == {unwrap(rs[i].cells)[n].length :
                        i \in {k \in 1..Len(rs) : rs[k].cells # None}} \cup {0}
    IN  CHOOSE m \in lengths : \A l \in lengths : l <= m

Spaces(n) == [i \in 1..n |-> " "]

RECURSIVE PaddedColumns(_, _, _, _)
\* Columns n.. of a row with cells as the claim prints them: each cell with
\* spaces up to the longest cell of its column, then one space
PaddedColumns(rs, cols, cells, n) ==
    IF n > Len(cols) THEN <<>>
    ELSE LET pad == Spaces(LongestCell(rs, n) - cells[n].length)
         IN  (IF alignment(cols[n]) = "Left" THEN cells[n].text \o pad
              ELSE pad \o cells[n].text)
             \o <<" ">> \o PaddedColumns(rs, cols, cells, n + 1)

\* The text of a line before the tree and the name of its row
ColumnsText(line, row) ==
    SubSeq(line.text, 1,
           Len(line.text) - Len(row.name.text) - row.depth
               - (IF row.depth # 0 THEN 1 ELSE 0))

\* C2: print_table pads every column n to exactly the longest cells[n] of
\* the rows that have cells; a row without cells contributes 0 to every
\* column, and with no row that has cells the width of every column is 0.
C2_ColumnsPaddedToLongestCell ==
    lines # None =>
        LET rs == table.rows
            out == unwrap(lines)
        IN  /\ \A n \in 1..Len(table.columns) :
                   column_widths(table.columns, rs)[n] = LongestCell(rs, n)
            /\ \A i \in 1..Len(rs) :
                   IF rs[i].cells # None
                   THEN ColumnsText(out[i], rs[i])
                            = PaddedColumns(rs, table.columns, unwrap(rs[i].cells), 1)
                   ELSE ColumnsText(out[i], rs[i])
                            = Spaces(total_width(table.columns, rs))

\* A printed table with a row without cells whose name is longer than every
\* cell, and two rows whose cells differ in length
C2_Witness ==
    /\ lines # None
    /\ \E i, j, k \in 1..Len(table.rows) :
          /\ table.rows[i].cells = None
          /\ table.rows[j].cells # None /\ table.rows[k].cells # None
          /\ unwrap(table.rows[j].cells)[1].length
                < unwrap(table.rows[k].cells)[1].length
          /\ table.rows[i].name.length > unwrap(table.rows[k].cells)[1].length

\* The tree part a line draws at level k (1..depth) of its row
TreeGlyph(line, row, k) ==
    line.text[Len(line.text) - Len(row.name.text) - 1 - row.depth + k]

\* C3: for every sequence of rows, once a row at depth d >= 1 has last set,
\* every following deeper row, up to the next row of depth <= d, draws a
\* blank at level d.
C3_BlankUnderLastRow ==
    lines # None =>
        \A i, j \in 1..Len(table.rows) :
            (/\ table.rows[i].depth >= 1
             /\ table.rows[i].last
             /\ Under(table.rows, i, j))
            => TreeGlyph(unwrap(lines)[j], table.rows[j], table.rows[i].depth)
                   = ascii_art("Blank")

\* A printed table with a last row at depth >= 1 and a deeper row under it
C3_Witness ==
    /\ lines # None
    /\ \E i, j \in 1..Len(table.rows) :
          /\ table.rows[i].depth >= 1
          /\ table.rows[i].last
          /\ Under(table.rows, i, j)

\* C4: a batch is sorted, and its first row appended, only after every
\* closure handed to the pool for it has ended and pushed its egg; from then
\* on the batch holds exactly one egg for every entry it was given.
C4_SortAfterEveryPush ==
    \A b \in 1..Len(frames) :
        /\ frames[b].pc \in {"sort", "rows"} =>
              /\ \A w \in workers : w.batch # b
              /\ Len(frames[b].file_eggs) = Len(frames[b].src)
              /\ \A f \in Files :
                    Cardinality({k \in 1..Len(frames[b].src) : frames[b].src[k] = f})
                      = Cardinality({k \in 1..Len(frames[b].file_eggs) :
                                        frames[b].file_eggs[k].file = f})
        /\ (b = Len(frames) /\ frames[b].pc \in {"scoped", "join"}) =>
              BatchFileRows(table.rows, frames[b].depth) = <<>>

\* A batch of two entries about to be sorted
C4_Witness ==
    frames # <<>> /\ Top.pc = "sort" /\ Len(Top.src) = 2 /\ Len(Top.file_eggs) = 2

\* The closures exist only while the innermost call waits in pool.scoped,
\* and every outer call is in its loop over a complete batch
OneBatchInFlight ==
    /\ \A w \in workers : frames # <<>> /\ w.batch = Level /\ Top.pc = "join"
    /\ \A b \in 1..(Len(frames) - 1) :
          /\ frames[b].pc = "rows"
          /\ Len(frames[b].file_eggs) = Len(frames[b].src)
          /\ frames[b + 1].depth = frames[b].depth + 1

\* C5: closures of two batches are never in flight together: the batch one
\* level down is handed to the pool only from the loop of its parent, whose
\* own batch is complete, and rows are appended to the table only while no
\* closure is running.
C5_BatchesNeverOverlap ==
    /\ []OneBatchInFlight
    /\ [][table.rows' # table.rows => \A w \in workers : ~Running(w)]_vars

\* A closure of a batch one level down runs while the parent is in its loop
C5_Witness ==
    /\ Len(frames) = 2
    /\ frames[1].pc = "rows"
    /\ \E w \in workers : w.batch = 2 /\ Running(w)

\* The holder of each lock is the closure at the step the lock guards
LocksGuard ==
    /\ Cardinality({w \in workers : w.pc = "cells"}) <= 1
    /\ Cardinality({w \in workers : w.pc = "push"}) <= 1
    /\ \A w \in workers : w.pc = "cells" <=> table_lock = Some(WorkerId(w))
    /\ \A w \in workers : w.pc = "push" <=> eggs_lock = Some(WorkerId(w))

\* While the closures of a batch run, the accumulator changes only by the
\* closure that holds its lock appending its own egg
OwnEggOnly ==
    \A b \in 1..Len(frames) :
        (b <= Len(frames') /\ frames[b].pc = "join"
            /\ frames'[b].file_eggs # frames[b].file_eggs)
        => \E w \in workers :
              /\ w.batch = b
              /\ eggs_lock = Some(WorkerId(w))
              /\ frames'[b].file_eggs = Append(frames[b].file_eggs, Egg(w))
              /\ workers' \ {[w EXCEPT !.pc = "done"]} = workers \ {w}

\* C6: the table and the accumulator each have their own lock: at most one
\* closure at a time is in cells_for_file, at most one at a time pushes, and
\* a closure writes only its own egg.
C6_LocksGuardTableAndEggs ==
    /\ []LocksGuard
    /\ [][OwnEggOnly]_vars

\* One closure is in cells_for_file while another pushes its egg: the two
\* locks are held at once, each by one closure
C6_Witness ==
    \E v, w \in workers :
        /\ v.pc = "cells" /\ w.pc = "push"
        /\ table_lock = Some(WorkerId(v)) /\ eggs_lock = Some(WorkerId(w))

\* File row j is a later sibling of file row i: same depth, no row above
\* that depth between them
LaterSibling(rs, i, j) ==
    /\ i < j
    /\ IsFileRow(rs[j])
    /\ rs[j].depth = rs[i].depth
    /\ \A k \in i..j : rs[k].depth >= rs[i].depth

\* C7: of the file rows of every batch that is not empty, exactly one has
\* last set, the one at the end of the sorted batch.
C7_OneLastFileRowPerBatch ==
    pc \in {"print", "done"} =>
        \A i \in 1..Len(table.rows) :
            IsFileRow(table.rows[i]) =>
                (table.rows[i].last
                    <=> ~\E j \in 1..Len(table.rows) : LaterSibling(table.rows, i, j))

\* A finished table with a batch of two file rows
C7_Witness ==
    /\ pc \in {"print", "done"}
    /\ \E i, j \in 1..Len(table.rows) :
          IsFileRow(table.rows[i]) /\ LaterSibling(table.rows, i, j)

\* The file rows of the table as (file, depth, last)
FileRows(rs) ==
    LET frs == SelectSeq(rs, IsFileRow)
    IN  [k \in 1..Len(frs) |-> <<frs[k].name.text[1], frs[k].depth, frs[k].last>>]

\* The view has listed docs as a tree with no limit of depth, every
\* directory opened and every child was listed
DocsTreeListed ==
    /\ pc \in {"print", "done"}
    /\ details.recurse = Some([tree |-> TRUE, max_depth |-> None])
    /\ unopenable = {}
    /\ \A i \in 1..Len(table.rows) :
          IsErrorRow(table.rows[i]) => IsPathlessErrorRow(table.rows[i])
    /\ FileRows(table.rows) # <<>>
    /\ FileRows(table.rows)[1][1] = "docs"

\* C8, as the code has it: listing docs/{x.txt, sub/{y.txt}} as a tree from
\* the single entry docs, with a comparator that puts x.txt before sub,
\* gives four file rows at depths 0, 1, 1, 2; docs, the only entry of its
\* batch, has last set, x.txt has not, sub and y.txt have.
C8_DocsTreeRows ==
    (DocsTreeListed /\ details.sort_field = "Size") =>
        FileRows(table.rows) = << <<"docs", 0, TRUE>>, <<"x.txt", 1, FALSE>>,
                                  <<"sub", 1, TRUE>>, <<"y.txt", 2, TRUE>> >>

\* The tree of docs has been listed in the order of sizes
C8_Witness ==
    DocsTreeListed /\ details.sort_field = "Size" /\ Len(FileRows(table.rows)) = 4

\* C8, as stated: the four file rows are at depths 0, 1, 1, 2 and the row
\* of docs has last = false, x.txt false, sub true, y.txt true.
C8_AsStated ==
    DocsTreeListed =>
        FileRows(table.rows) = << <<"docs", 0, FALSE>>, <<"x.txt", 1, FALSE>>,
                                  <<"sub", 1, TRUE>>, <<"y.txt", 2, TRUE>> >>

\* The rows of the entry of file row i: the rows under it, one level down,
\* that have no cells
EntryRows(rs, i) ==
    {j \in 1..Len(rs) :
        Under(rs, i, j) /\ rs[j].depth = rs[i].depth + 1 /\ rs[j].cells = None}

\* The number of times f is an element of the sequence fs
Count(fs, f) == Cardinality({k \in 1..Len(fs) : fs[k] = f})

\* C9: an entry whose attributes could not be read has, when attributes are
\* shown, exactly one error row without a path, one level down and right
\* after its file row, and no error row when they are not shown; a batch
\* that has been appended has exactly one file row for each of its entries.
C9_AttributeErrorRow ==
    /\ \A i \in 1..Len(table.rows) :
          (IsFileRow(table.rows[i]) /\ table.rows[i].name.text[1] \in unreadable) =>
              LET errs == {j \in EntryRows(table.rows, i) :
                              IsPathlessErrorRow(table.rows[j])}
              IN  IF details.xattr THEN errs = {i + 1} ELSE errs = {}
    /\ BatchAppended =>
          \A f \in Files :
              Count(RowFiles(BatchFileRows(table.rows, Top.depth)), f)
                  = Count(Top.src, f)

\* Attributes are shown, and a batch of two entries has been appended in
\* which the attributes of one entry could not be read
C9_Witness ==
    /\ details.xattr
    /\ BatchAppended
    /\ Len(Top.src) = 2
    /\ \E k \in 1..2 : Top.src[k] \in unreadable
    /\ \E k \in 1..2 : Top.src[k] \notin unreadable

\* C10: a directory to recurse into that could not be opened is given the
\* rows of an entry that is not recursed into: its file row, then only its
\* own attribute rows and its own error row one level down, the final one
\* with last set, no row for the failure to open and no file row under it.
C10_UnopenedDirectoryIsLeaf ==
    \A i \in 1..Len(table.rows) :
        (IsFileRow(table.rows[i]) /\ table.rows[i].name.text[1] \in unopenable) =>
            LET f    == table.rows[i].name.text[1]
                own  == EntryRows(table.rows, i)
                errs == {j \in own : IsErrorRow(table.rows[j])}
            IN  /\ \A j \in 1..Len(table.rows) : Under(table.rows, i, j) => j \in own
                /\ \A j \in errs : IsPathlessErrorRow(table.rows[j])
                /\ Cardinality(errs)
                      = IF details.xattr /\ f \in unreadable THEN 1 ELSE 0
                /\ \A j \in own : table.rows[j].last <=> (j + 1) \notin own

\* A directory to recurse into could not be opened, and its file row is
\* followed by a row of its own
C10_Witness ==
    \E i \in 1..Len(table.rows) :
        /\ IsFileRow(table.rows[i])
        /\ table.rows[i].name.text[1] \in unopenable
        /\ EntryRows(table.rows, i) # {}

\* The view has finished appending rows
Finished == pc \in {"print", "done"}

\* The file of a file row
RowFile(r) == r.name.text[1]

\* File row i is of a directory that was opened to be listed
Opened(rs, i) ==
    /\ IsFileRow(rs[i])
    /\ recurses(details.recurse, RowFile(rs[i]), rs[i].depth)
    /\ RowFile(rs[i]) \notin unopenable

\* The error rows of file row i that carry the path c
PathErrorRows(rs, i, c) ==
    {j \in EntryRows(rs, i) : rs[j].name.text = <<"<", c, ": ">> \o IoError \o <<">">>}

\* The file rows of the children of file row i
ChildFileRows(rs, i) ==
    {j \in 1..Len(rs) :
        Under(rs, i, j) /\ rs[j].depth = rs[i].depth + 1 /\ IsFileRow(rs[j])}

\* The elements of a sequence
Range(seq) == {seq[k] : k \in 1..Len(seq)}

\* C11: every child of an opened directory that could not be listed has
\* exactly one error row with its path, one level below the directory's
\* row; these rows come after all attribute rows of the directory and
\* before the first file row of a child, with or without listed children.
C11_ListingErrorRows ==
    Finished =>
        \A i \in 1..Len(table.rows) :
            Opened(table.rows, i) =>
                LET rs  == table.rows
                    own == EntryRows(rs, i)
                    kids == Range(Children(RowFile(rs[i])))
                IN  /\ \A c \in kids :
                          LET listed == \E j \in ChildFileRows(rs, i) : RowFile(rs[j]) = c
                          IN  /\ Cardinality(PathErrorRows(rs, i, c)) <= 1
                              /\ listed => PathErrorRows(rs, i, c) = {}
                              /\ (~listed /\ ~is_dotfile(c)) =>
                                     Cardinality(PathErrorRows(rs, i, c)) = 1
                    /\ \A j \in own :
                          (IsErrorRow(rs[j]) /\ ~IsPathlessErrorRow(rs[j])) =>
                              \E c \in kids : j \in PathErrorRows(rs, i, c)
                    /\ \A j, k \in own :
                          (IsXattrRow(rs[j]) /\ IsErrorRow(rs[k])) => j < k
                    /\ \A j \in own, k \in ChildFileRows(rs, i) : j < k

\* A directory with an attribute row, then the error row of a child that
\* could not be listed, then the file row of a child that was
C11_Witness ==
    /\ Finished
    /\ \E i \in 1..Len(table.rows) :
          /\ Opened(table.rows, i)
          /\ \E j \in EntryRows(table.rows, i) : IsXattrRow(table.rows[j])
          /\ \E c \in Files : PathErrorRows(table.rows, i, c) # {}
          /\ ChildFileRows(table.rows, i) # {}

\* C12: an entry that is not recursed into has its attribute rows first
\* and its error rows after them, all one level down, and exactly the final
\* row of the group has last set.
C12_LeafRows ==
    Finished =>
        \A i \in 1..Len(table.rows) :
            (IsFileRow(table.rows[i]) /\ ChildFileRows(table.rows, i) = {}) =>
                LET rs  == table.rows
                    own == EntryRows(rs, i)
                IN  /\ \A j \in 1..Len(rs) : Under(rs, i, j) => j \in own
                    /\ \A j \in own : IsXattrRow(rs[j]) \/ IsErrorRow(rs[j])
                    /\ \A j, k \in own :
                          (IsXattrRow(rs[j]) /\ IsErrorRow(rs[k])) => j < k
                    /\ \A j \in own : rs[j].last <=> (\A k \in own : k <= j)

\* An opened directory whose children were all filtered out or not listed,
\* with an attribute row, not last, and then an error row, last
C12_Witness ==
    /\ Finished
    /\ \E i \in 1..Len(table.rows) :
          /\ Opened(table.rows, i)
          /\ ChildFileRows(table.rows, i) = {}
          /\ \E j, k \in EntryRows(table.rows, i) :
                /\ IsXattrRow(table.rows[j]) /\ ~table.rows[j].last
                /\ IsErrorRow(table.rows[k]) /\ table.rows[k].last

C14_LineLengthIsDisplayWidth ==
    lines # None =>
        \A i \in 1..Len(unwrap(lines)) :
            unwrap(lines)[i].length = DisplayWidth(unwrap(lines)[i].text)

\* The header row the claim describes for the columns cols: depth 0, not
\* last, named "Name", one cell per column with the column's label
DescribedHeader(cols) ==
    [depth |-> 0,
     cells |-> Some([n \in 1..Len(cols) |->
                       [text |-> <<header(cols[n])>>,
                        length |-> UnicodeWidth(header(cols[n]))]]),
     name  |-> [text |-> <<"Name">>, length |-> 4],
     last  |-> FALSE]

\* C15, as the code has it: add_header appends, at the end of the rows, a
\* row of depth 0 that is not last, is named "Name" and has one cell per
\* column with the column's header label; it is the first row when the
\* table had no rows, as when Details::view calls it.
C15_HeaderRowAppended ==
    [][add_header =>
          /\ table'.rows = Append(table.rows, DescribedHeader(table.columns))
          /\ table.rows = <<>> => table'.rows[1] = DescribedHeader(table.columns)]_vars

\* add_header has been called on an empty table and again after a file row
C15_Witness ==
    /\ Len(table.rows) = 3
    /\ table.rows[1] = DescribedHeader(table.columns)
    /\ IsFileRow(table.rows[2])
    /\ table.rows[3] = DescribedHeader(table.columns)

\* C15, as stated: once add_header has been called the header row is the
\* first row of the table, with depth 0, last = false, the name "Name" and
\* one cell per column with the column's header label.
C15_AsStated ==
    (\E i \in 1..Len(table.rows) : IsHeaderRow(table.rows[i])) =>
        table.rows[1] = DescribedHeader(table.columns)

\* The permissions cell of a file row, the first of its cells
PermissionsCell(r) == unwrap(r.cells)[1]

\* The cell ends with the attribute marker
HasAt(cell) == cell.text[Len(cell.text)] = "@"

\* C16: the permissions cell is 10 wide, or 11 with a final "@"; the rows
\* of the collector have the "@" exactly when attributes are shown and the
\* file's attributes were read and are not empty, and never when attributes
\* are not shown or could not be read.
C16_PermissionsWidthAndAt ==
    \A i \in 1..Len(table.rows) :
        (IsFileRow(table.rows[i]) /\ table.columns # <<>>) =>
            LET cell == PermissionsCell(table.rows[i])
                f    == RowFile(table.rows[i])
                has  == \E j \in EntryRows(table.rows, i) : IsXattrRow(table.rows[j])
            IN  /\ cell.length = IF HasAt(cell) THEN 11 ELSE 10
                /\ cell.length = DisplayWidth(cell.text)
                /\ \A k \in 1..10 : cell.text[k] # "@"
                /\ HasAt(cell) <=> (details.xattr /\ f \notin unreadable /\ has)
                /\ (~details.xattr \/ f \in unreadable) => (~HasAt(cell) /\ ~has)

\* Two file rows of one listing, one with the "@" and an attribute row, one
\* of a file whose attributes could not be read, without
C16_Witness ==
    \E i, j \in 1..Len(table.rows) :
        /\ IsFileRow(table.rows[i]) /\ IsFileRow(table.rows[j])
        /\ table.columns # <<>>
        /\ HasAt(PermissionsCell(table.rows[i]))
        /\ PermissionsCell(table.rows[i]).length = 11
        /\ RowFile(table.rows[j]) \in unreadable
        /\ PermissionsCell(table.rows[j]).length = 10

\* The decimal strings of the ids that are rendered, written out
Decimal(id) ==
    CASE id = U32(0, 2)     -> <<"2">>
      [] id = U32(0, 100)   -> <<"1", "0", "0">>
      [] id = U32(0, 666)   -> <<"6", "6", "6">>
      [] id = U32(0, 1000)  -> <<"1", "0", "0", "0">>
      [] id = U32(32768, 0) -> <<"2", "1", "4", "7", "4", "8", "3", "6", "4", "8">>

\* The users that have the uid, and the groups that have the gid
UsersOf(uid) == {u \in users.users : u.uid = uid}
GroupsOf(gid) == {g \in users.groups : g.gid = gid}

\* The text the claims give the cell of an id: the name when the id
\* resolves, its decimal string when it does not
NameOrDecimal(named, id) ==
    IF named = {} THEN Decimal(id) ELSE <<(CHOOSE n \in named : TRUE).name>>

\* C17, as the code has it: render_group gives the "yours" style exactly
\* when the group id resolves to a group, the invoking uid resolves to a
\* user, and that user's primary group is the group or the user's name is
\* among the group's members; the style is "not yours" otherwise, for every
\* group id that does not resolve too.  The text is the group's name when
\* the id resolves and the decimal string of the id when it does not, 2^31
\* and above included.
C17_GroupStyleAndText ==
    (rendered # None /\ unwrap(rendered).of = "group") =>
        LET gid  == unwrap(rendered).id
            cell == unwrap(rendered).cell
            yours == \E g \in GroupsOf(gid) : \E u \in UsersOf(users.current_uid) :
                         u.primary_group = gid \/ u.name \in g.members
        IN  /\ cell.style = IF yours THEN "group_yours" ELSE "group_not_yours"
            /\ cell.text = NameOrDecimal(GroupsOf(gid), gid)

\* The group 2^31 does not resolve and is the primary group of the invoking
\* user: the cell is the decimal string in the "not yours" style
C17_Witness ==
    /\ rendered # None
    /\ unwrap(rendered).of = "group"
    /\ unwrap(rendered).id = U32(32768, 0)
    /\ \E u \in UsersOf(users.current_uid) : u.primary_group = U32(32768, 0)
    /\ unwrap(rendered).cell.style = "group_not_yours"
    /\ unwrap(rendered).cell.text = Decimal(U32(32768, 0))

\* C17, as stated: the style is "yours" whenever the invoking user's primary
\* group id is the group id or the invoking user's name is in the group's
\* member list, and "not yours" otherwise; the text is the name of the group
\* or the decimal string of the id.
C17_AsStated ==
    (rendered # None /\ unwrap(rendered).of = "group") =>
        LET gid  == unwrap(rendered).id
            cell == unwrap(rendered).cell
            yours == \E u \in UsersOf(users.current_uid) :
                         \/ u.primary_group = gid
                         \/ \E g \in GroupsOf(gid) : u.name \in g.members
        IN  /\ cell.style = IF yours THEN "group_yours" ELSE "group_not_yours"
            /\ cell.text = NameOrDecimal(GroupsOf(gid), gid)

\* C18: render_user gives the user's name when the uid resolves and the
\* decimal string of the uid when it does not, 2^31 and above included, and
\* the "you" style exactly when the uid is the invoking uid, resolved or not.
C18_UserStyleAndText ==
    (rendered # None /\ unwrap(rendered).of = "user") =>
        LET uid  == unwrap(rendered).id
            cell == unwrap(rendered).cell
        IN  /\ cell.text = NameOrDecimal(UsersOf(uid), uid)
            /\ cell.style = IF uid = users.current_uid THEN "user_you"
                             ELSE "user_someone_else"

\* The invoking uid 2^31, which has no name, rendered as its decimal string
\* in the "you" style
C18_Witness ==
    /\ rendered # None
    /\ unwrap(rendered).of = "user"
    /\ unwrap(rendered).id = U32(32768, 0)
    /\ users.current_uid = U32(32768, 0)
    /\ unwrap(rendered).cell.style = "user_you"
    /\ unwrap(rendered).cell.text = Decimal(U32(32768, 0))

\* C19: the eggs handed to the sort are in the order of the entries of the
\* batch, each in the place of its entry, whatever the order in which the
\* closures ended.
C19_EggsInInputOrder ==
    \A b \in 1..Len(frames) :
        frames[b].pc = "sort" => EggFiles(frames[b].file_eggs) = frames[b].src

\* C20: an entry that is recursed into has its attribute rows, then its
\* error rows, then the rows of its children, all one level down; none of
\* its attribute and error rows has last set, so the only row of that group
\* of siblings with last set is the final file row of a child.
C20_RowsBeforeChildren ==
    Finished =>
        \A i \in 1..Len(table.rows) :
            (IsFileRow(table.rows[i]) /\ ChildFileRows(table.rows, i) # {}) =>
                LET rs   == table.rows
                    own  == EntryRows(rs, i)
                    kids == ChildFileRows(rs, i)
                IN  /\ \A j \in own : IsXattrRow(rs[j]) \/ IsErrorRow(rs[j])
                    /\ \A j, k \in own :
                          (IsXattrRow(rs[j]) /\ IsErrorRow(rs[k])) => j < k
                    /\ \A j \in own, k \in kids : j < k
                    /\ \A j \in own : ~rs[j].last
                    /\ \A k \in kids : rs[k].last <=> (\A m \in kids : m <= k)

\* A directory one level down with an attribute row, not last, an error
\* row, not last, and then the file row of its one child, last
C20_Witness ==
    /\ Finished
    /\ \E i \in 1..Len(table.rows) :
          /\ IsFileRow(table.rows[i])
          /\ table.rows[i].depth = 1
          /\ \E j, k \in EntryRows(table.rows, i) :
                /\ IsXattrRow(table.rows[j]) /\ ~table.rows[j].last
                /\ IsErrorRow(table.rows[k]) /\ ~table.rows[k].last
          /\ \E m \in ChildFileRows(table.rows, i) : table.rows[m].last

\* The stack of print_table after it has drawn the first i rows
StackAfter(i) ==
    print_rows(table.columns, SubSeq(table.rows, 1, i),
               column_widths(table.columns, table.rows),
               total_width(table.columns, table.rows), 1, <<>>, <<>>).stack

\* C21: for every row of depth d >= 1 the part drawn at the row's own level
\* is the corner when the row is last and the edge when it is not, and once
\* the row is drawn the stack holds blank at level d when the row was last
\* and line when it was not.
C21_OwnLevelSetThenDemoted ==
    lines # None =>
        \A i \in 1..Len(table.rows) :
            table.rows[i].depth >= 1 =>
                LET row == table.rows[i]
                IN  /\ TreeGlyph(unwrap(lines)[i], row, row.depth)
                          = ascii_art(IF row.last THEN "Corner" ELSE "Edge")
                    /\ Len(StackAfter(i)) = row.depth + 1
                    /\ StackAfter(i)[row.depth + 1]
                          = IF row.last THEN "Blank" ELSE "Line"

\* A printed table with a row one level down that is last and a row at
\* least one level down that is not
C21_Witness ==
    /\ lines # None
    /\ \E i, j \in 1..Len(table.rows) :
          /\ table.rows[i].depth = 1 /\ table.rows[i].last
          /\ table.rows[j].depth >= 1 /\ ~table.rows[j].last

\* The depth of the first row is 0 and no row is more than one level deeper
\* than the row before it
WellFormed(rs) ==
    /\ rs # <<>> => rs[1].depth = 0
    /\ \A i \in 1..(Len(rs) - 1) : rs[i + 1].depth <= rs[i].depth + 1

\* A stack that is only ever extended: levels deeper than the row keep what
\* earlier rows left there
StackExtended(stack, new_len) ==
    IF new_len <= Len(stack) THEN stack
    ELSE stack \o [i \in 1..(new_len - Len(stack)) |-> "Edge"]

RECURSIVE ExtendOnlyGlyphs(_, _, _, _)
\* The tree parts of rows i.. drawn from a stack that is only extended
ExtendOnlyGlyphs(rs, i, stack, out) ==
    IF i > Len(rs) THEN out
    ELSE LET row   == rs[i]
             drawn == [StackExtended(stack, row.depth + 1)
                          EXCEPT ![row.depth + 1] =
                              IF row.last THEN "Corner" ELSE "Edge"]
             after == [drawn EXCEPT ![row.depth + 1] =
                              IF row.last THEN "Blank" ELSE "Line"]
         IN  ExtendOnlyGlyphs(rs, i + 1, after,
                 Append(out, [k \in 1..row.depth |-> ascii_art(drawn[k + 1])]))

\* The tree parts a line draws, level 1 first
TreeGlyphs(line, row) == [k \in 1..row.depth |-> TreeGlyph(line, row, k)]

\* Row j is the row at level k that row i hangs under: the rows from j to i
\* are all at level k or deeper
SetsLevel(rs, j, i, k) ==
    /\ j < i
    /\ rs[j].depth = k
    /\ \A m \in j..i : rs[m].depth >= k

\* C22: on every sequence of rows that starts at depth 0 and never goes more
\* than one level deeper from one row to the next, the lines drawn with the
\* stack resized to depth + 1 for each row have the tree parts that a stack
\* which is only extended gives, and every level a row draws above its own
\* was set by an earlier row at that level that is still in the stack.
C22_TruncatedStackDrawsAsExtended ==
    (lines # None /\ WellFormed(table.rows)) =>
        LET rs       == table.rows
            extended == ExtendOnlyGlyphs(rs, 1, <<>>, <<>>)
        IN  \A i \in 1..Len(rs) :
              /\ TreeGlyphs(unwrap(lines)[i], rs[i]) = extended[i]
              /\ \A k \in 1..(rs[i].depth - 1) :
                    \E j \in 1..Len(rs) :
                       /\ SetsLevel(rs, j, i, k)
                       /\ TreeGlyph(unwrap(lines)[i], rs[i], k)
                            = ascii_art(IF rs[j].last THEN "Blank" ELSE "Line")

\* A printed table that goes one level down, back up and down again, so that
\* the resize cuts off a level which a later row then sets and draws
C22_Witness ==
    /\ lines # None
    /\ WellFormed(table.rows)
    /\ Len(table.rows) = 4
    /\ table.rows[1].depth = 0 /\ table.rows[2].depth = 1
    /\ table.rows[3].depth = 0 /\ table.rows[4].depth = 1
    /\ table.rows[2].last /\ ~table.rows[4].last

RECURSIVE CellRegionOK(_, _, _, _, _)
\* The pieces of text from column n on are, for each column, the pieces of
\* the column's cell and its padding, as wide as the column together, and
\* then one space
CellRegionOK(text, rs, cells, ncols, n) ==
    IF n > ncols THEN text = <<>>
    ELSE LET width  == LongestCell(rs, n)
             pieces == Len(cells[n].text) + (width - cells[n].length)
         IN  /\ Len(text) >= pieces + 1
             /\ DisplayWidth(SubSeq(text, 1, pieces)) = width
             /\ text[pieces + 1] = " "
             /\ CellRegionOK(SubSeq(text, pieces + 2, Len(text)), rs, cells,
                             ncols, n + 1)

\* C23: every line print_table returns starts with a cell region as wide as
\* the sum of the column widths plus the number of columns: the padded cells
\* with one space after each column for a row with cells, that many spaces
\* for a row without cells, so that the tree and the name start at the same
\* offset on every line.
C23_CellRegionIsTotalWidth ==
    lines # None =>
        LET rs    == table.rows
            ncols == Len(table.columns)
            total == ncols + iter_sum([n \in 1..ncols |-> LongestCell(rs, n)])
        IN  \A i \in 1..Len(rs) :
              LET region == ColumnsText(unwrap(lines)[i], rs[i])
              IN  /\ DisplayWidth(region) = total
                  /\ rs[i].cells # None =>
                        CellRegionOK(region, rs, unwrap(rs[i].cells), ncols, 1)
                  /\ rs[i].cells = None =>
                        (Len(region) = total /\ \A k \in 1..total : region[k] = " ")

\* A printed table with a header row, a file row and a row without cells,
\* whose cells differ in length in both columns
C23_Witness ==
    /\ lines # None
    /\ Len(table.columns) = 2
    /\ \E i, j, k \in 1..Len(table.rows) :
          /\ IsHeaderRow(table.rows[i])
          /\ IsFileRow(table.rows[j])
          /\ table.rows[k].cells = None
          /\ \A n \in 1..2 : unwrap(table.rows[i].cells)[n].length
                                 # unwrap(table.rows[j].cells)[n].length

\* The names of the rows that are made with cells: the header row's and the
\* file rows'
NamesWithCells == {<<"Name">>} \cup {<<f>> : f \in Files}

\* C24: whatever add_header and add_files_to_table have appended so far,
\* the header row and every file row have one cell for each column of the
\* table, and every attribute row and error row has no cells.
C24_CellsMatchColumns ==
    \A i \in 1..Len(table.rows) :
        LET row == table.rows[i]
        IN  IF row.name.text \in NamesWithCells
            THEN /\ row.cells # None
                 /\ Len(unwrap(row.cells)) = Len(table.columns)
            ELSE row.cells = None

\* A table of two columns that holds a header row, a file row, an attribute
\* row and an error row
C24_Witness ==
    /\ Len(table.columns) = 2
    /\ \E h, i, j, k \in 1..Len(table.rows) :
          /\ table.rows[h].name.text = <<"Name">>
          /\ table.rows[i].name.text \in {<<f>> : f \in Files}
          /\ table.rows[j].name.text = <<XattrText(1)>>
          /\ Head(table.rows[k].name.text) = "<"

\* File row i may have child file rows: there are recursion options with
\* tree set, the file is a directory, the row is not at the depth limit, the
\* directory opened, and some child that is not filtered out was listed
MayHaveChildren(rs, i) ==
    LET f == RowFile(rs[i])
        r == details.recurse
    IN  /\ r # None
        /\ unwrap(r).tree
        /\ is_directory(f)
        /\ ~(unwrap(r).max_depth # None /\ unwrap(unwrap(r).max_depth) <= rs[i].depth)
        /\ f \notin unopenable
        /\ \E c \in Range(Children(f)) :
               ~is_dotfile(c) /\ PathErrorRows(rs, i, c) = {}

\* C25: a file row has file rows of children under it only if there are
\* recursion options with tree set, the entry is a directory, the depth limit
\* is not reached, the directory opened and a listed child is left after
\* filtering; those file rows are of such children.  Under any other file
\* row there is no file row and no row more than one level deeper.
C25_ChildRowsOnlyWhenRecursing ==
    \A i \in 1..Len(table.rows) :
        IsFileRow(table.rows[i]) =>
            LET rs == table.rows
            IN  /\ ChildFileRows(rs, i) # {} => MayHaveChildren(rs, i)
                /\ \A j \in ChildFileRows(rs, i) :
                      /\ RowFile(rs[j]) \in Range(Children(RowFile(rs[i])))
                      /\ ~is_dotfile(RowFile(rs[j]))
                      /\ PathErrorRows(rs, i, RowFile(rs[j])) = {}
                /\ ~MayHaveChildren(rs, i) =>
                      \A j \in 1..Len(rs) :
                          Under(rs, i, j) =>
                              (rs[j].depth = rs[i].depth + 1 /\ ~IsFileRow(rs[j]))

\* The view has finished: a directory has file rows of its children under
\* it, and a directory among them, at the depth limit, has none
C25_Witness ==
    /\ Finished
    /\ \E i, j \in 1..Len(table.rows) :
          /\ IsFileRow(table.rows[i]) /\ IsFileRow(table.rows[j])
          /\ j \in ChildFileRows(table.rows, i)
          /\ is_directory(RowFile(table.rows[j]))
          /\ RowFile(table.rows[j]) \notin unopenable
          /\ ~MayHaveChildren(table.rows, j)
          /\ EntryRows(table.rows, j) # {}

\* The files below a directory, at any level
Descendants(f) ==
    Range(Children(f))
        \cup UNION {Range(Children(c)) : c \in Range(Children(f))}

\* The rows of the table are in pre-order
PreOrder(rs) ==
    /\ rs # <<>> => rs[1].depth = 0
    /\ \A k \in 1..(Len(rs) - 1) : rs[k + 1].depth <= rs[k].depth + 1
    \* a row without cells comes right after the file row one level up, or
    \* after another row without cells of that file row
    /\ \A j \in 1..Len(rs) :
          rs[j].cells = None =>
              /\ j > 1
              /\ \/ IsFileRow(rs[j - 1]) /\ rs[j - 1].depth = rs[j].depth - 1
                 \/ rs[j - 1].cells = None /\ rs[j - 1].depth = rs[j].depth
    \* the file rows under a file row are those of the files below it, and
    \* every row between it and them is deeper than it
    /\ \A i, j \in 1..Len(rs) :
          (IsFileRow(rs[i]) /\ IsFileRow(rs[j]) /\ i # j) =>
              /\ RowFile(rs[j]) \in Descendants(RowFile(rs[i])) <=> Under(rs, i, j)
              /\ RowFile(rs[j]) \in Range(Children(RowFile(rs[i])))
                    <=> (Under(rs, i, j) /\ rs[j].depth = rs[i].depth + 1)

\* C26: rows are only ever appended, and in pre-order: the attribute rows,
\* error rows and descendants of an entry follow its file row without a gap
\* and come before the file row of its next sibling, each of them deeper
\* than the entry, and no row is more than one level deeper than the row
\* before it.
C26_RowsInPreOrder ==
    /\ []PreOrder(table.rows)
    /\ [][/\ Len(table.rows') >= Len(table.rows)
          /\ SubSeq(table.rows', 1, Len(table.rows)) = table.rows]_vars

\* A finished table where a directory's file row is followed by a row of
\* its own, a child with a row of its own, a directory child and then that
\* child's own child
C26_Witness ==
    /\ Finished
    /\ \E i \in 1..Len(table.rows) :
          /\ Len(table.rows) >= i + 5
          /\ IsFileRow(table.rows[i]) /\ table.rows[i].depth = 0
          /\ table.rows[i + 1].cells = None /\ table.rows[i + 1].depth = 1
          /\ IsFileRow(table.rows[i + 2]) /\ table.rows[i + 2].depth = 1
          /\ table.rows[i + 3].cells = None /\ table.rows[i + 3].depth = 2
          /\ IsFileRow(table.rows[i + 4]) /\ table.rows[i + 4].depth = 1
          /\ \E j \in (i + 5)..Len(table.rows) :
                IsFileRow(table.rows[j]) /\ table.rows[j].depth = 2

\* No closure holds the lock of the table and the lock of the accumulator
\* together, and a closure that waits for or holds the accumulator's lock has
\* given back the table's
NeverBothLocks ==
    /\ \A w \in workers :
          ~(table_lock = Some(WorkerId(w)) /\ eggs_lock = Some(WorkerId(w)))
    /\ \A w \in workers :
          w.pc \in {"lock_eggs", "push", "done"} => table_lock # Some(WorkerId(w))

\* While pool.scoped waits for closures that have not ended, one of them
\* can take a step
NoDeadlock ==
    (frames # <<>> /\ Top.pc = "join" /\ ~all_joined(Level)) => ENABLED WorkerStep

\* C27: no closure ever holds the table's lock and the accumulator's lock at
\* once, the table's lock being given back before the accumulator's is
\* taken; the closures never block each other for good, and every batch
\* handed to the pool gets to the end of pool.scoped and to the sort.
C27_LocksNeverNestedBatchJoins ==
    /\ []NeverBothLocks
    /\ []NoDeadlock
    /\ (frames # <<>> /\ Top.pc = "join") ~> (frames # <<>> /\ Top.pc = "sort")

\* The batch of a directory's two children has come to the sort, both eggs
\* pushed and no closure left
C27_Witness ==
    /\ Len(frames) = 2
    /\ Top.pc = "sort"
    /\ Len(Top.file_eggs) = 2
    /\ workers = {}
    /\ table_lock = None /\ eggs_lock = None

\* width - cells[n].length of print_table does not go below zero, for every
\* row with cells and every column, and cells[n] is there
WidthCoversCells ==
    \A i \in 1..Len(table.rows), n \in 1..Len(table.columns) :
        table.rows[i].cells # None =>
            /\ n <= Len(unwrap(table.rows[i].cells))
            /\ column_widths(table.columns, table.rows)[n]
                  - unwrap(table.rows[i].cells)[n].length >= 0

\* A pass of the loop over the eggs: it is taken only with an egg to take, so
\* that num_eggs - 1 does not go below zero, and an egg without attributes,
\* errors or directory appends its file row alone
EggLoopStep ==
    (frames # <<>> /\ Top.pc = "rows" /\ table.rows' # table.rows) =>
        /\ Len(Top.file_eggs) - 1 >= 0
        /\ Top.index <= Len(Top.file_eggs)
        /\ LET egg == Top.file_eggs[Top.index]
           IN  (egg.xattrs = <<>> /\ egg.errors = <<>> /\ egg.dir = None) =>
                   /\ Len(table.rows') = Len(table.rows) + 1
                   /\ IsFileRow(table.rows'[Len(table.rows')])

\* The call for an empty batch leaves the table as it is
EmptyBatchStep ==
    (frames # <<>> /\ Top.src = <<>>) => table.rows' = table.rows

\* The call for an empty batch comes to its end
EmptyBatchReturns ==
    (frames # <<>> /\ Top.src = <<>> /\ Top.pc = "rows") =>
        (Top.file_eggs = <<>> /\ ENABLED return)

\* C28: the unsigned subtractions stay at or above zero: a column's width
\* is at least the length of every cell of the column, and num_eggs - 1 and
\* count - 1 are computed only inside loops over a collection that is not
\* empty, so that an empty batch appends nothing and ends, and an entry
\* without attributes and errors appends only its file row.
C28_NoUnsignedUnderflow ==
    /\ []WidthCoversCells
    /\ []EmptyBatchReturns
    /\ [][EggLoopStep /\ EmptyBatchStep]_vars

\* A printed table of two columns from a batch of two files: their size
\* cells differ in length, and the first file row has no row of its own
C28_Witness ==
    /\ pc = "done"
    /\ Len(table.columns) = 2
    /\ \E i \in 1..(Len(table.rows) - 1) :
          /\ IsFileRow(table.rows[i]) /\ IsFileRow(table.rows[i + 1])
          /\ table.rows[i].depth = table.rows[i + 1].depth
          /\ unwrap(table.rows[i].cells)[2].length
                # unwrap(table.rows[i + 1].cells)[2].length

====
